---- MODULE Spec2Model ----
(***************************************************************************)
(* Telemetry pipeline assembly and lifecycle of internal-utils.            *)
(*                                                                         *)
(* The repository holds two copies of the builder:                         *)
(*   "rust"  : src/rust/crates/internal-utils/src/lib.rs                   *)
(*   "tools" : src/tools/rust/crates/internal-utils/src/lib.rs             *)
(* Both install into the same process-wide slots (the tracing global       *)
(* default subscriber, the OpenTelemetry globals, the environment).        *)
(*                                                                         *)
(* An Option<T> is a sequence of length at most one: <<>> is None and      *)
(* <<v>> is Some(v).                                                       *)
(***************************************************************************)
EXTENDS Integers, Sequences, FiniteSets, TLC

\* ------------------------------------------------------------------ bounds
\* Number of pipeline-initialization calls (try_init, simple_initialize)
\* one behaviour makes.
MaxInits == 2

\* Longest stall, in ms, of one force_flush() against a collector that never
\* answers.  The caller passes no ceiling to force_flush, so the bound is the
\* SDK's own and not a value of this repository.
FlushBlockMs == 1000

\* The "small constant" allowed on top of the ceilings of one drop, in ms.
SlackMs == 50

\* --------------------------------------------------------- program constants
\* Duration::from_millis(100) handed to shutdown_with_timeout.
ShutdownTimeoutMs == 100

None == <<>>
Some(v) == <<v>>
IsSome(o) == o # <<>>
UnwrapOr(o, d) == IF o = <<>> THEN d ELSE o[1]

Crates == {"rust", "tools"}

\* The three signals, in the order the guard declares and releases them.
Kinds == <<"tracer", "meter", "logger">>
KindSet == {"tracer", "meter", "logger"}

\* ------------------------------------------------------------------- inputs
PredefinedFile == "./log.txt"
\* A path whose parent directory does not exist: File::create fails on it.
BadPath == "/nonexistent/dir/f.log"
Paths == {PredefinedFile, BadPath}
Creatable(p) == p # BadPath

FilterArgs == {None, Some("warn")}
JsonArgs == {None, Some(TRUE), Some(FALSE)}
FileArgs == {None} \cup {Some(p) : p \in Paths}
RustLogArgs == {"info", "debug"}
IntervalArgs == {"5000", "10000"}

Url(k) ==
    CASE k = "tracer" -> "http://localhost:4318/v1/traces"
      [] k = "meter" -> "http://localhost:4318/v1/metrics"
      [] k = "logger" -> "http://localhost:4318/v1/logs"

\* TracingOtelParams with exactly the endpoints of S present.
OtelParams(S) ==
    [ endpoint_traces |-> IF "tracer" \in S THEN Some(Url("tracer")) ELSE None,
      endpoint_metrics |-> IF "meter" \in S THEN Some(Url("meter")) ELSE None,
      endpoint_logs |-> IF "logger" \in S THEN Some(Url("logger")) ELSE None,
      service_name |-> "svc",
      service_version |-> "1.0" ]

OtelArgs == {OtelParams(S) : S \in SUBSET KindSet}

Endpoint(o, k) ==
    CASE k = "tracer" -> o.endpoint_traces
      [] k = "meter" -> o.endpoint_metrics
      [] k = "logger" -> o.endpoint_logs

\* -------------------------------------------------------------------- state
VARIABLES
    builder,        \* Option<TracingBuilder>: the builder value the caller holds
    subscriber,     \* Option: tracing's global default subscriber
    propagator,     \* global text-map propagator: "noop" or "w3c"
    global_tracer,  \* Option<provider id>: opentelemetry::global tracer provider
    global_meter,   \* Option<provider id>: opentelemetry::global meter provider
    providers,      \* every SDK provider built so far; a provider's id is its index
    guards,         \* the TracingGuards values the caller holds
    env,            \* process environment: RUST_LOG, OTEL_METRIC_EXPORT_INTERVAL
    fs,             \* file system: path -> "absent" | "empty" | "written"
    results,        \* what each initialization call so far returned, in order
    http,           \* Option<HttpRequestMetrics>: the descriptor the caller holds
    instruments,    \* the instruments MetricsHelper has created so far
    last            \* the most recent call: what it was given, did and returned

vars == << builder, subscriber, propagator, global_tracer, global_meter,
           providers, guards, env, fs, results, http, instruments, last >>

\* What the metrics helpers work on.
metrics == << http, instruments >>

process == << subscriber, propagator, global_tracer, global_meter, providers,
              guards, env, fs, results, metrics >>

\* Initialization calls made so far, and those of them that returned Ok.
inits == Len(results)
oks == Cardinality({i \in 1..Len(results) : results[i].res = "Ok"})

\* ---------------------------------------------------------------- builder
\* impl Default for TracingBuilder (rust), #[derive(Default)] (tools).
\* The tools copy has no env_filter field.
New(c) ==
    IF c = "rust"
    THEN [ crate |-> "rust", json |-> Some(TRUE), stdout |-> Some(TRUE),
           file |-> None, env_filter |-> None, otel |-> None ]
    ELSE [ crate |-> "tools", json |-> None, stdout |-> None,
           file |-> None, otel |-> None ]

with_stdout(b, value) ==
    IF b.crate = "rust"
    THEN [b EXCEPT !.stdout = Some(value)]
    ELSE [b EXCEPT !.json = Some(value)]

with_env_filter(b, value) == [b EXCEPT !.env_filter = value]

\* rust: value is an Option<bool>; tools: value is a bool.
with_json(b, value) ==
    IF b.crate = "rust"
    THEN [b EXCEPT !.json = value]
    ELSE [b EXCEPT !.json = Some(value)]

\* rust: path is an Option<String>; tools: path is a String.
with_file(b, path) ==
    IF b.crate = "rust"
    THEN [b EXCEPT !.file = path]
    ELSE [b EXCEPT !.file = Some(path)]

with_otel(b, otel) == [b EXCEPT !.otel = Some(otel)]

\* with_predefined_file (rust), with_default_file (tools).
with_predefined_file(b) == [b EXCEPT !.file = Some(PredefinedFile)]

\* with_rust_log: the builder is returned as it was; the write goes to the
\* process environment.
with_rust_log(e, value) == [e EXCEPT !.RUST_LOG = Some(value)]

\* Variant of with_otel_metric_export_interval: the value is written to
\* RUST_LOG.
with_otel_metric_export_interval_to_rust_log(e, value) ==
    [e EXCEPT !.RUST_LOG = Some(value)]

\* with_otel_metric_export_interval: likewise.
with_otel_metric_export_interval(e, value) ==
    [e EXCEPT !.OTEL_METRIC_EXPORT_INTERVAL = Some(value)]

\* ------------------------------------------------------------ guard release
\* #[derive(Default)] struct TracingGuards.
TracingGuards == [ otel_tracer |-> None, otel_meter |-> None, otel_logger |-> None ]

Handle(g, k) ==
    CASE k = "tracer" -> g.otel_tracer
      [] k = "meter" -> g.otel_meter
      [] k = "logger" -> g.otel_logger

HeldKinds(g) == {k \in KindSet : IsSome(Handle(g, k))}
HeldIds(g) == {Handle(g, k)[1] : k \in HeldKinds(g)}

ReleaseCalls == {"force_flush", "shutdown_with_timeout"}

\* What the SDK answers to the release calls of one drop: each call returns
\* Ok or Err at once, or the collector never answers and every call runs
\* into the ceiling it was given ("Timeout").
Outcomes(g) ==
    [HeldKinds(g) \X ReleaseCalls -> {"Ok", "Err"}]
        \cup {[c \in HeldKinds(g) \X ReleaseCalls |-> "Timeout"]}

\* Wall-clock cost of one release call.  shutdown_with_timeout is handed
\* 100 ms; force_flush is handed nothing.
CallMs(call, result) ==
    IF result # "Timeout" THEN 0
    ELSE IF call = "shutdown_with_timeout" THEN ShutdownTimeoutMs
    ELSE FlushBlockMs

\* provider.force_flush(): the result is discarded by `_ =`.
force_flush(rs, id, k, out) ==
    [rs EXCEPT !.providers[id].flushes = @ + 1,
               !.events = Append(@, [p |-> id, kind |-> k, call |-> "force_flush"]),
               !.ignored = @ + (IF out[<<k, "force_flush">>] = "Ok" THEN 0 ELSE 1),
               !.ms = @ + CallMs("force_flush", out[<<k, "force_flush">>])]

\* provider.shutdown_with_timeout(100 ms): the result is discarded by `_ =`.
shutdown_with_timeout(rs, id, k, out) ==
    [rs EXCEPT !.providers[id].shutdowns = @ + 1,
               !.events = Append(@, [p |-> id, kind |-> k, call |-> "shutdown_with_timeout"]),
               !.ignored = @ + (IF out[<<k, "shutdown_with_timeout">>] = "Ok" THEN 0 ELSE 1),
               !.ms = @ + CallMs("shutdown_with_timeout", out[<<k, "shutdown_with_timeout">>])]

\* Variant of release: the provider is flushed and never shut down.
release_flush_only(rs, handle, k, out) ==
    IF handle = None THEN rs
    ELSE force_flush(rs, handle[1], k, out)

\* One `if let Some(provider) = &self.otel_x { flush; shutdown }` block.
release(rs, handle, k, out) ==
    IF handle = None THEN rs
    ELSE shutdown_with_timeout(force_flush(rs, handle[1], k, out), handle[1], k, out)

\* Variant of drop: the meter is released ahead of the tracer.
drop_meter_first(g, provs, out) ==
    LET rs0 == [providers |-> provs, events |-> <<>>, ignored |-> 0, ms |-> 0,
                panicked |-> FALSE]
        rs1 == release(rs0, g.otel_meter, "meter", out)
        rs2 == release(rs1, g.otel_tracer, "tracer", out)
        rs3 == release(rs2, g.otel_logger, "logger", out)
    IN rs3

\* Variant of drop: each result is unwrapped, so the first call that does not
\* return Ok panics and the calls after it are never made.
unwrap_call(rs, handle, k, call, out) ==
    IF rs.panicked \/ handle = None THEN rs
    ELSE LET r == IF call = "force_flush"
                  THEN force_flush(rs, handle[1], k, out)
                  ELSE shutdown_with_timeout(rs, handle[1], k, out)
         IN [r EXCEPT !.panicked = out[<<k, call>>] # "Ok", !.ignored = rs.ignored]

unwrap_release(rs, handle, k, out) ==
    unwrap_call(unwrap_call(rs, handle, k, "force_flush", out),
                handle, k, "shutdown_with_timeout", out)

drop_unwrapping(g, provs, out) ==
    LET rs0 == [providers |-> provs, events |-> <<>>, ignored |-> 0, ms |-> 0,
                panicked |-> FALSE]
        rs1 == unwrap_release(rs0, g.otel_tracer, "tracer", out)
        rs2 == unwrap_release(rs1, g.otel_meter, "meter", out)
        rs3 == unwrap_release(rs2, g.otel_logger, "logger", out)
    IN rs3

\* impl Drop for TracingGuards (the same text in both copies): the state of
\* the providers after the drop, the release calls made in order, how many
\* of their results were not Ok, and the time spent.
drop(g, provs, out) ==
    LET rs0 == [providers |-> provs, events |-> <<>>, ignored |-> 0, ms |-> 0,
                panicked |-> FALSE]
        rs1 == release(rs0, g.otel_tracer, "tracer", out)
        rs2 == release(rs1, g.otel_meter, "meter", out)
        rs3 == release(rs2, g.otel_logger, "logger", out)
    IN rs3

\* ----------------------------------------------------------------- try_init
\* The locals of one try_init call and the process-wide slots it writes.
\* res = "" while the call is running; a `?` that fires sets it to the error.
Locals(sub, provs, gt, gm, prop, files, e) ==
    [ res |-> "", guard |-> TracingGuards, layers |-> <<>>,
      providers |-> provs, global_tracer |-> gt, global_meter |-> gm,
      propagator |-> prop, fs |-> files, subscriber |-> sub, env |-> e,
      exporters |-> <<>>, steps |-> <<>> ]

Step(st, name) == Append(st.steps, name)

\* Variant of FileLayer: a file that cannot be created is skipped silently.
FileLayer_lenient(b, st) ==
    IF b.file = None \/ ~Creatable(b.file[1]) THEN st
    ELSE [st EXCEPT !.fs[b.file[1]] = "empty",
                    !.layers = Append(@, [layer |-> "file", path |-> b.file[1],
                                          json |-> UnwrapOr(b.json, TRUE),
                                          ansi |-> FALSE]),
                    !.steps = Step(st, "File::create") \o <<"push file layer">>]

\* if let Some(file) = self.file { File::create(&file)?; layers.push(..) }
FileLayer(b, st) ==
    IF b.file = None THEN st
    ELSE IF ~Creatable(b.file[1])
    THEN [st EXCEPT !.res = "FileSink", !.steps = Step(st, "File::create")]
    ELSE [st EXCEPT !.fs[b.file[1]] = "empty",
                    !.layers = Append(@, [layer |-> "file", path |-> b.file[1],
                                          json |-> UnwrapOr(b.json, TRUE),
                                          ansi |-> FALSE]),
                    !.steps = Step(st, "File::create") \o <<"push file layer">>]

\* Variant of StdoutLayer: the stdout layer is the JSON one whatever the
\* json flag says.
StdoutLayer_json_only(b, st) ==
    IF st.res # "" \/ ~UnwrapOr(b.stdout, TRUE) THEN st
    ELSE [st EXCEPT !.layers = Append(@, [layer |-> "stdout", json |-> TRUE,
                                          ansi |-> TRUE]),
                    !.steps = Step(st, "push stdout layer")]

\* if stdout { layers.push(..) }
StdoutLayer(b, st) ==
    IF st.res # "" \/ ~UnwrapOr(b.stdout, TRUE) THEN st
    ELSE [st EXCEPT !.layers = Append(@, [layer |-> "stdout",
                                          json |-> UnwrapOr(b.json, TRUE),
                                          ansi |-> TRUE]),
                    !.steps = Step(st, "push stdout layer")]

\* opentelemetry::global::set_text_map_propagator(TraceContextPropagator::new())
SetPropagator(st) ==
    [st EXCEPT !.propagator = "w3c", !.steps = Step(st, "set_text_map_propagator")]

\* if let Some(endpoint) = otel_params.endpoint_traces { .. }
\* fail: the signals whose OTLP exporter cannot be constructed.
Traces(o, st, fail) ==
    IF st.res # "" \/ o.endpoint_traces = None THEN st
    ELSE IF "tracer" \in fail
    THEN [st EXCEPT !.res = "ExporterBuild",
                    !.steps = Step(st, "SpanExporter::build")]
    ELSE LET id == Len(st.providers) + 1 IN
         [st EXCEPT !.exporters = Append(@, "tracer"),
                    !.providers = Append(@, [kind |-> "tracer", flushes |-> 0,
                                             shutdowns |-> 0]),
                    !.global_tracer = Some(id),
                    !.layers = Append(@, [layer |-> "otel_trace", provider |-> id]),
                    !.guard.otel_tracer = Some(id),
                    !.steps = Step(st, "SpanExporter::build")
                                \o <<"SdkTracerProvider::build", "set_tracer_provider",
                                     "push trace bridge layer">>]

\* Variant of periodic_interval: the reader always runs at the SDK's default
\* interval.
periodic_interval_default(e) == None

\* with_periodic_exporter(exporter): the reader takes its export interval
\* from OTEL_METRIC_EXPORT_INTERVAL as it is when the provider is built; None
\* stands for the SDK's default.
periodic_interval(e) == e.OTEL_METRIC_EXPORT_INTERVAL

\* Variant of Metrics: the meter provider is built and kept in the guard but
\* never installed as the global meter provider.
Metrics_no_global(o, st, fail) ==
    IF st.res # "" \/ o.endpoint_metrics = None THEN st
    ELSE IF "meter" \in fail
    THEN [st EXCEPT !.res = "ExporterBuild",
                    !.steps = Step(st, "MetricExporter::build")]
    ELSE LET id == Len(st.providers) + 1 IN
         [st EXCEPT !.exporters = Append(@, "meter"),
                    !.providers = Append(@, [kind |-> "meter", flushes |-> 0,
                                             shutdowns |-> 0,
                                             interval |-> periodic_interval(st.env)]),
                    !.guard.otel_meter = Some(id),
                    !.steps = Step(st, "MetricExporter::build")
                                \o <<"SdkMeterProvider::build">>]

\* Variant of Metrics: the provider is built and installed as the global
\* before the exporter it is to use is constructed.
Metrics_global_first(o, st, fail) ==
    IF st.res # "" \/ o.endpoint_metrics = None THEN st
    ELSE LET id == Len(st.providers) + 1
             installed ==
                 [st EXCEPT !.providers = Append(@, [kind |-> "meter", flushes |-> 0,
                                                     shutdowns |-> 0,
                                                     interval |-> periodic_interval(st.env)]),
                            !.global_meter = Some(id),
                            !.guard.otel_meter = Some(id),
                            !.steps = Step(st, "SdkMeterProvider::build")
                                        \o <<"set_meter_provider", "MetricExporter::build">>]
         IN IF "meter" \in fail THEN [installed EXCEPT !.res = "ExporterBuild"]
            ELSE [installed EXCEPT !.exporters = Append(@, "meter")]

\* if let Some(endpoint) = otel_params.endpoint_metrics { .. }
Metrics(o, st, fail) ==
    IF st.res # "" \/ o.endpoint_metrics = None THEN st
    ELSE IF "meter" \in fail
    THEN [st EXCEPT !.res = "ExporterBuild",
                    !.steps = Step(st, "MetricExporter::build")]
    ELSE LET id == Len(st.providers) + 1 IN
         [st EXCEPT !.exporters = Append(@, "meter"),
                    !.providers = Append(@, [kind |-> "meter", flushes |-> 0,
                                             shutdowns |-> 0,
                                             interval |-> periodic_interval(st.env)]),
                    !.global_meter = Some(id),
                    !.guard.otel_meter = Some(id),
                    !.steps = Step(st, "MetricExporter::build")
                                \o <<"SdkMeterProvider::build", "set_meter_provider">>]

\* Variant of Logs: the logger provider goes to the bridge layer only and the
\* guard keeps no handle on it.
Logs_no_handle(o, st, fail) ==
    IF st.res # "" \/ o.endpoint_logs = None THEN st
    ELSE IF "logger" \in fail
    THEN [st EXCEPT !.res = "ExporterBuild",
                    !.steps = Step(st, "LogExporter::build")]
    ELSE LET id == Len(st.providers) + 1 IN
         [st EXCEPT !.exporters = Append(@, "logger"),
                    !.providers = Append(@, [kind |-> "logger", flushes |-> 0,
                                             shutdowns |-> 0]),
                    !.layers = Append(@, [layer |-> "otel_log", provider |-> id]),
                    !.steps = Step(st, "LogExporter::build")
                                \o <<"SdkLoggerProvider::build", "push log bridge layer">>]

\* if let Some(endpoint) = otel_params.endpoint_logs { .. }
\* The logger provider is handed to the bridge layer and to the guard; no
\* global is set for it.
Logs(o, st, fail) ==
    IF st.res # "" \/ o.endpoint_logs = None THEN st
    ELSE IF "logger" \in fail
    THEN [st EXCEPT !.res = "ExporterBuild",
                    !.steps = Step(st, "LogExporter::build")]
    ELSE LET id == Len(st.providers) + 1 IN
         [st EXCEPT !.exporters = Append(@, "logger"),
                    !.providers = Append(@, [kind |-> "logger", flushes |-> 0,
                                             shutdowns |-> 0]),
                    !.layers = Append(@, [layer |-> "otel_log", provider |-> id]),
                    !.guard.otel_logger = Some(id),
                    !.steps = Step(st, "LogExporter::build")
                                \o <<"SdkLoggerProvider::build", "push log bridge layer">>]

\* Variant of Otel: the propagator is installed only when some endpoint is set.
Otel_lazy_propagator(b, st, fail) ==
    IF st.res # "" \/ b.otel = None THEN st
    ELSE IF \A k \in KindSet : Endpoint(b.otel[1], k) = None THEN st
    ELSE Logs(b.otel[1], Metrics(b.otel[1], Traces(b.otel[1], SetPropagator(st), fail), fail), fail)

\* #[cfg(feature = "otel")] if let Some(otel_params) = self.otel { .. }
Otel(b, st, fail) ==
    IF st.res # "" \/ b.otel = None THEN st
    ELSE Logs(b.otel[1], Metrics(b.otel[1], Traces(b.otel[1], SetPropagator(st), fail), fail), fail)

\* EnvFilter::from_default_env(): parsed from RUST_LOG as it is now.
from_default_env(e) == [from |-> "env", expr |-> e.RUST_LOG]

\* Variant of Filter: RUST_LOG, when set, takes precedence over the filter
\* the builder was given.
Filter_env_first(b, e) ==
    IF e.RUST_LOG = None /\ b.crate = "rust" /\ b.env_filter # None
    THEN [from |-> "builder", expr |-> b.env_filter]
    ELSE from_default_env(e)

\* rust: self.env_filter.unwrap_or_else(|| EnvFilter::from_default_env());
\* tools: EnvFilter::from_default_env().
Filter(b, e) ==
    IF b.crate = "rust" /\ b.env_filter # None
    THEN [from |-> "builder", expr |-> b.env_filter]
    ELSE from_default_env(e)

\* Variant of Install: the global default subscriber is replaced when one is
\* already set.
Install_replacing(b, st, e) ==
    IF st.res # "" THEN st
    ELSE [st EXCEPT !.res = "Ok",
                    !.subscriber = Some([filter |-> Filter(b, e), layers |-> st.layers]),
                    !.steps = Step(st, "try_init")]

\* Variant of Install: when the install fails the guard is emptied without
\* running its Drop, so the providers it held are never released.
Install_forgetting(b, st, e) ==
    IF st.res # "" THEN st
    ELSE IF st.subscriber # None
    THEN [st EXCEPT !.res = "AlreadyInstalled", !.guard = TracingGuards,
                    !.steps = Step(st, "try_init")]
    ELSE [st EXCEPT !.res = "Ok",
                    !.subscriber = Some([filter |-> Filter(b, e), layers |-> st.layers]),
                    !.steps = Step(st, "try_init")]

\* tracing_subscriber::registry().with(filter).with(layers).try_init()?
\* It fails when a global default subscriber is already set.
Install(b, st, e) ==
    IF st.res # "" THEN st
    ELSE IF st.subscriber # None
    THEN [st EXCEPT !.res = "AlreadyInstalled", !.steps = Step(st, "try_init")]
    ELSE [st EXCEPT !.res = "Ok",
                    !.subscriber = Some([filter |-> Filter(b, e), layers |-> st.layers]),
                    !.steps = Step(st, "try_init")]

\* The inputs of a call under which neither `?` before the subscriber install
\* fires: the file, if any, can be created and every exporter asked for can be
\* constructed.
Clean(b, fail) ==
    /\ b.file = None \/ Creatable(b.file[1])
    /\ b.otel = None \/ \A k \in fail : Endpoint(b.otel[1], k) = None

\* Variant of try_init: the log file is created after the OTel branch.
try_init_file_last(b, sub, provs, gt, gm, prop, files, e, fail) ==
    LET st == Otel(b, StdoutLayer(b, Locals(sub, provs, gt, gm, prop, files, e)), fail)
    IN Install(b, IF st.res # "" THEN st ELSE FileLayer(b, st), e)

\* TracingBuilder::try_init up to its return; on an error return the local
\* guard is still to be dropped.
try_init(b, sub, provs, gt, gm, prop, files, e, fail) ==
    Install(b, Otel(b, StdoutLayer(b, FileLayer(b, Locals(sub, provs, gt, gm, prop, files, e))), fail), e)

\* ------------------------------------------------------------------ actions
Init ==
    /\ builder = None
    /\ subscriber = None
    /\ propagator = "noop"
    /\ global_tracer = None
    /\ global_meter = None
    /\ providers = <<>>
    /\ guards = <<>>
    /\ env = [RUST_LOG |-> None, OTEL_METRIC_EXPORT_INTERVAL |-> None]
    /\ fs = [p \in Paths |-> "absent"]
    /\ results = <<>>
    /\ http = None
    /\ instruments = {}
    /\ last = [op |-> "start"]

\* What the setter chain of the builder the caller holds has written to the
\* environment so far; nothing when the chain has just started.
NoWrites == [RUST_LOG |-> None, OTEL_METRIC_EXPORT_INTERVAL |-> None]

ChainOf(l) ==
    IF l.op \in {"new", "with_rust_log", "with_otel_metric_export_interval"}
    THEN l.chain ELSE NoWrites

\* The caller is one thread holding at most one builder value at a time: a
\* chain TracingBuilder::new().with_..(..) that ends in try_init(), or is
\* given up unbuilt when the next chain starts.  Setters touch the builder (or
\* the environment) only, so guard drops and simple_initialize are taken
\* between chains.
\*
\* TracingBuilder::new() of either copy.  A chain is started only while an
\* initialization call is still to come.
NewBuilder ==
    /\ inits < MaxInits
    /\ \E c \in Crates :
        /\ builder' = Some(New(c))
        /\ last' = [op |-> "new", crate |-> c, chain |-> NoWrites]
        /\ UNCHANGED process

WithStdout ==
    /\ builder # None
    /\ \E value \in BOOLEAN : builder' = Some(with_stdout(builder[1], value))
    /\ UNCHANGED << process, last >>

WithEnvFilter ==
    /\ builder # None
    /\ builder[1].crate = "rust"
    /\ \E value \in FilterArgs : builder' = Some(with_env_filter(builder[1], value))
    /\ UNCHANGED << process, last >>

WithJson ==
    /\ builder # None
    /\ \E value \in (IF builder[1].crate = "rust" THEN JsonArgs ELSE BOOLEAN) :
           builder' = Some(with_json(builder[1], value))
    /\ UNCHANGED << process, last >>

WithFile ==
    /\ builder # None
    /\ \E path \in (IF builder[1].crate = "rust" THEN FileArgs ELSE Paths) :
           builder' = Some(with_file(builder[1], path))
    /\ UNCHANGED << process, last >>

WithOtel ==
    /\ builder # None
    /\ \E otel \in OtelArgs : builder' = Some(with_otel(builder[1], otel))
    /\ UNCHANGED << process, last >>

WithPredefinedFile ==
    /\ builder # None
    /\ builder' = Some(with_predefined_file(builder[1]))
    /\ UNCHANGED << process, last >>

WithRustLog ==
    /\ builder # None
    /\ \E value \in RustLogArgs :
        /\ env' = with_rust_log(env, value)
        /\ last' = [op |-> "with_rust_log", value |-> value,
                    chain |-> with_rust_log(ChainOf(last), value)]
    /\ UNCHANGED << builder, subscriber, propagator, global_tracer, global_meter,
                    providers, guards, fs, results, metrics >>

WithOtelMetricExportInterval ==
    /\ builder # None
    /\ \E value \in IntervalArgs :
        /\ env' = with_otel_metric_export_interval(env, value)
        /\ last' = [op |-> "with_otel_metric_export_interval", value |-> value,
                    chain |-> with_otel_metric_export_interval(ChainOf(last), value)]
    /\ UNCHANGED << builder, subscriber, propagator, global_tracer, global_meter,
                    providers, guards, fs, results, metrics >>

\* builder.try_init(): the builder is consumed.  On Ok the guard moves to
\* the caller; on an error return the local guard goes out of scope and its
\* Drop runs before the caller sees the error.
TryInit ==
    /\ builder # None
    /\ inits < MaxInits
    /\ \E fail \in SUBSET KindSet :
       \E st \in {try_init(builder[1], subscriber, providers, global_tracer,
                           global_meter, propagator, fs, env, fail)} :
       \E out \in (IF st.res = "Ok" THEN {<<>>} ELSE Outcomes(st.guard)) :
       \E rs \in {IF st.res = "Ok"
                  THEN [providers |-> st.providers, events |-> <<>>,
                        ignored |-> 0, ms |-> 0, panicked |-> FALSE]
                  ELSE drop(st.guard, st.providers, out)} :
          /\ builder' = None
          /\ subscriber' = st.subscriber
          /\ propagator' = st.propagator
          /\ global_tracer' = st.global_tracer
          /\ global_meter' = st.global_meter
          /\ providers' = rs.providers
          /\ guards' = IF st.res = "Ok" THEN Append(guards, st.guard) ELSE guards
          /\ fs' = st.fs
          /\ results' = Append(results, [op |-> "try_init", res |-> st.res,
                                          clean |-> Clean(builder[1], fail)])
          /\ last' = [op |-> "try_init", cfg |-> builder[1], first |-> inits = 0,
                      chain |-> ChainOf(last),
                      res |-> st.res,
                      guard |-> IF st.res = "Ok" THEN Some(st.guard) ELSE None,
                      local_guard |-> st.guard,
                      layers |-> st.layers, exporters |-> st.exporters,
                      steps |-> st.steps, release |-> rs.events,
                      ignored |-> rs.ignored, ms |-> rs.ms,
                      panicked |-> rs.panicked]
          /\ UNCHANGED << env, metrics >>

\* TracingBuilder::simple_initialize() (tools copy): a JSON stdout
\* subscriber filtered from RUST_LOG; no guard is returned.
simple_initialize(sub, e) ==
    IF sub # None
    THEN [res |-> "AlreadyInstalled", subscriber |-> sub]
    ELSE [res |-> "Ok",
          subscriber |-> Some([filter |-> from_default_env(e),
                               layers |-> << [layer |-> "stdout", json |-> TRUE,
                                              ansi |-> TRUE] >>])]

SimpleInitialize ==
    /\ builder = None
    /\ inits < MaxInits
    /\ LET r == simple_initialize(subscriber, env)
       IN /\ subscriber' = r.subscriber
          /\ results' = Append(results, [op |-> "simple_initialize", res |-> r.res,
                                          clean |-> TRUE])
          /\ last' = [op |-> "simple_initialize", first |-> inits = 0, res |-> r.res]
    /\ UNCHANGED << builder, propagator, global_tracer, global_meter, providers,
                    guards, env, fs, metrics >>

RemoveAt(s, i) == SubSeq(s, 1, i - 1) \o SubSeq(s, i + 1, Len(s))

\* The caller lets a guard it holds go out of scope: Drop for TracingGuards.
DropGuard ==
    /\ builder = None
    /\ \E i \in 1..Len(guards) :
       \E out \in Outcomes(guards[i]) :
       \E rs \in {drop(guards[i], providers, out)} :
          /\ providers' = rs.providers
          /\ guards' = RemoveAt(guards, i)
          /\ last' = [op |-> "drop", guard |-> guards[i], release |-> rs.events,
                      ignored |-> rs.ignored, ms |-> rs.ms,
                      panicked |-> rs.panicked]
    /\ UNCHANGED << builder, subscriber, propagator, global_tracer, global_meter,
                    env, fs, results, metrics >>

\* error!(..) and the other event macros: an event that passes the filter is
\* written by every file layer of the installed subscriber to its file.
Emit ==
    /\ builder = None
    /\ subscriber # None
    /\ \E i \in 1..Len(subscriber[1].layers) : subscriber[1].layers[i].layer = "file"
    /\ fs' = [p \in Paths |->
                IF \E i \in 1..Len(subscriber[1].layers) :
                       /\ subscriber[1].layers[i].layer = "file"
                       /\ subscriber[1].layers[i].path = p
                THEN "written" ELSE fs[p]]
    /\ UNCHANGED << builder, subscriber, propagator, global_tracer, global_meter,
                    providers, guards, env, results, metrics, last >>

\* The pipeline lifecycle: builders configured for sinks and OTel, the
\* initialization calls and guard drops.
Next ==
    \/ NewBuilder
    \/ WithStdout
    \/ WithJson
    \/ WithFile
    \/ WithOtel
    \/ WithPredefinedFile
    \/ TryInit
    \/ SimpleInitialize
    \/ DropGuard

Spec == Init /\ [][Next]_vars

\* The fluent builder alone: every setter of both copies, no initialization.
NextBuilder ==
    \/ NewBuilder
    \/ WithStdout
    \/ WithEnvFilter
    \/ WithJson
    \/ WithFile
    \/ WithOtel
    \/ WithPredefinedFile
    \/ WithRustLog
    \/ WithOtelMetricExportInterval

SpecBuilder == Init /\ [][NextBuilder]_vars

\* Builds and the log file: builders given a file and OTel parameters, the
\* build, and events written through the installed pipeline.
NextFile ==
    \/ NewBuilder
    \/ WithFile
    \/ WithPredefinedFile
    \/ WithOtel
    \/ TryInit
    \/ Emit

SpecFile == Init /\ [][NextFile]_vars

\* Builds under a changing environment: the setters that write RUST_LOG and
\* OTEL_METRIC_EXPORT_INTERVAL, the filter setter, the OTel parameters and
\* the build.
NextEnv ==
    \/ NewBuilder
    \/ WithEnvFilter
    \/ WithOtel
    \/ WithRustLog
    \/ WithOtelMetricExportInterval
    \/ TryInit

SpecEnv == Init /\ [][NextEnv]_vars

\* ------------------------------------------------------------------ metrics
\* Arguments the metric descriptor setters are called with.  status_code takes
\* a u16; 65535 is its largest value.
MaxExtra == 2
RouteArgs == {"/users", "/orders"}
StatusArgs == {404, 65535}
ErrorArgs == {"timeout"}
ExtraArgs == {<<"region", "eu">>, <<"http.route", "/shadow">>}
DurationArgs == {250}

\* HttpRequestMetrics::new()
HttpRequestMetrics_new ==
    [ method |-> "GET", route |-> "", status_code |-> 200, error |-> None,
      extra |-> <<>>, duration_ms |-> None ]

get(d) == [d EXCEPT !.method = "GET"]
post(d) == [d EXCEPT !.method = "POST"]
put(d) == [d EXCEPT !.method = "PUT"]
delete(d) == [d EXCEPT !.method = "DELETE"]
patch(d) == [d EXCEPT !.method = "PATCH"]

ok(d) == [d EXCEPT !.status_code = 200]
bad_request(d) == [d EXCEPT !.status_code = 400]
conflict(d) == [d EXCEPT !.status_code = 409]
internal_server_error(d) == [d EXCEPT !.status_code = 500]

route(d, value) == [d EXCEPT !.route = value]
status_code(d, value) == [d EXCEPT !.status_code = value]
error(d, value) == [d EXCEPT !.error = Some(value)]
extra(d, key, value) == [d EXCEPT !.extra = Append(@, <<key, value>>)]
duration(d, value) == [d EXCEPT !.duration_ms = Some(value)]

\* opentelemetry::KeyValue::new(key, value): the value is a Value::String for
\* a String argument and a Value::I64 for an i64 argument.
KeyValue(key, type, v) == [key |-> key, value |-> [type |-> type, v |-> v]]

\* `self.status_code as i64`: a u16 zero-extended to 64 bits.
as_i64(v) == v % 65536

\* Variant of into_attributes: error.type is pushed after the extra pairs.
into_attributes_error_last(d) ==
    LET attrs == << KeyValue("http.request.method", "String", d.method),
                    KeyValue("http.route", "String", d.route),
                    KeyValue("http.response.status_code", "I64", as_i64(d.status_code)) >>
        extras == [i \in 1..Len(d.extra) |->
                      KeyValue(d.extra[i][1], "String", d.extra[i][2])]
    IN IF d.error # None
       THEN Append(attrs \o extras, KeyValue("error.type", "String", d.error[1]))
       ELSE attrs \o extras

\* impl IntoOtelAttributes for HttpRequestMetrics
into_attributes(d) ==
    LET attrs == << KeyValue("http.request.method", "String", d.method),
                    KeyValue("http.route", "String", d.route),
                    KeyValue("http.response.status_code", "I64", as_i64(d.status_code)) >>
        with_error == IF d.error # None
                      THEN Append(attrs, KeyValue("error.type", "String", d.error[1]))
                      ELSE attrs
    IN with_error \o [i \in 1..Len(d.extra) |->
                         KeyValue(d.extra[i][1], "String", d.extra[i][2])]

\* MetricsHelper: the instrument each helper builds on the meter it is given.
http_request_counter ==
    [ name |-> "http.server.request.total", kind |-> "u64_counter",
      unit |-> "1", boundaries |-> None ]

http_request_duration ==
    [ name |-> "http.server.request.duration", kind |-> "u64_histogram",
      unit |-> "ms",
      boundaries |-> Some(<<5, 10, 25, 50, 100, 250, 500, 1000, 2500, 5000, 10000>>) ]

db_operation_counter ==
    [ name |-> "db.client.operation.total", kind |-> "u64_counter",
      unit |-> "1", boundaries |-> None ]

\* Variant of db_operation_duration: the buckets stop at five seconds.
db_operation_duration_short ==
    [ name |-> "db.client.operation.duration", kind |-> "u64_histogram",
      unit |-> "ms",
      boundaries |-> Some(<<5, 10, 25, 50, 100, 250, 500, 1000, 2500, 5000>>) ]

db_operation_duration ==
    [ name |-> "db.client.operation.duration", kind |-> "u64_histogram",
      unit |-> "ms",
      boundaries |-> Some(<<5, 10, 25, 50, 100, 250, 500, 1000, 2500, 5000, 10000>>) ]

\* A descriptor is written as one chain HttpRequestMetrics::new().post()..
\* and then converted; the next descriptor starts from new() again.
HttpNew ==
    /\ http' = Some(HttpRequestMetrics_new)
    /\ last' = [op |-> "http_new"]
    /\ UNCHANGED << builder, subscriber, propagator, global_tracer, global_meter,
                    providers, guards, env, fs, results, instruments >>

Building == http # None /\ last.op = "http_new"

HttpFrame ==
    UNCHANGED << builder, subscriber, propagator, global_tracer, global_meter,
                 providers, guards, env, fs, results, instruments, last >>

HttpMethod ==
    /\ Building
    /\ \/ http' = Some(get(http[1]))
       \/ http' = Some(post(http[1]))
       \/ http' = Some(put(http[1]))
       \/ http' = Some(delete(http[1]))
       \/ http' = Some(patch(http[1]))
    /\ HttpFrame

HttpStatus ==
    /\ Building
    /\ \/ http' = Some(ok(http[1]))
       \/ http' = Some(bad_request(http[1]))
       \/ http' = Some(conflict(http[1]))
       \/ http' = Some(internal_server_error(http[1]))
       \/ \E value \in StatusArgs : http' = Some(status_code(http[1], value))
    /\ HttpFrame

HttpRoute ==
    /\ Building
    /\ \E value \in RouteArgs : http' = Some(route(http[1], value))
    /\ HttpFrame

HttpError ==
    /\ Building
    /\ \E value \in ErrorArgs : http' = Some(error(http[1], value))
    /\ HttpFrame

HttpExtra ==
    /\ Building
    /\ Len(http[1].extra) < MaxExtra
    /\ \E kv \in ExtraArgs : http' = Some(extra(http[1], kv[1], kv[2]))
    /\ HttpFrame

HttpDuration ==
    /\ Building
    /\ \E value \in DurationArgs : http' = Some(duration(http[1], value))
    /\ HttpFrame

\* d.into_attributes(): takes &self and returns a fresh Vec<KeyValue>.
IntoAttributes ==
    /\ http # None
    /\ last' = [op |-> "into_attributes", d |-> http[1],
                attrs |-> into_attributes(http[1])]
    /\ UNCHANGED << builder, subscriber, propagator, global_tracer, global_meter,
                    providers, guards, env, fs, results, metrics >>

\* MetricsHelper::x(&meter): one call of one of the four helpers.
CreateInstrument ==
    /\ \/ instruments' = instruments \cup {http_request_counter}
       \/ instruments' = instruments \cup {http_request_duration}
       \/ instruments' = instruments \cup {db_operation_counter}
       \/ instruments' = instruments \cup {db_operation_duration}
    /\ UNCHANGED << builder, subscriber, propagator, global_tracer, global_meter,
                    providers, guards, env, fs, results, http, last >>

\* The metric helpers: descriptors built and converted, instruments created.
NextMetrics ==
    \/ HttpNew
    \/ HttpMethod
    \/ HttpStatus
    \/ HttpRoute
    \/ HttpError
    \/ HttpExtra
    \/ HttpDuration
    \/ IntoAttributes
    \/ CreateInstrument

SpecMetrics == Init /\ [][NextMetrics]_vars

\* ------------------------------------------------------------------ claims
\* The guard whose Drop ran in the most recent call: the one the caller
\* dropped, or the local guard of a try_init that returned an error.
ReleaseRan == last.op = "drop" \/ (last.op = "try_init" /\ last.res # "Ok")
Released == IF last.op = "drop" THEN last.guard ELSE last.local_guard

LiveIds == UNION {HeldIds(guards[i]) : i \in 1..Len(guards)}

\* The subscriber in place carries a trace bridge whose provider has been
\* shut down: the guard of the successful call has been dropped.
InstalledGuardDropped ==
    /\ subscriber # None
    /\ \E i \in 1..Len(subscriber[1].layers) :
         /\ subscriber[1].layers[i].layer = "otel_trace"
         /\ providers[subscriber[1].layers[i].provider].shutdowns = 1

\* C1: in any sequence of try_init (any configuration, either copy) and
\* simple_initialize calls, at most one call returns Ok; dropping the guard of
\* the successful call does not make room for another success.
C1_AtMostOneInitSucceeds == oks <= 1

\* C1 witness: the guard of the successful call was dropped and a later call
\* still came back AlreadyInstalled.
C1_Witness ==
    /\ InstalledGuardDropped
    /\ guards = <<>>
    /\ Len(results) = 2
    /\ results[1].res = "Ok"
    /\ results[2].res = "AlreadyInstalled"

BothTryInit ==
    /\ Len(results) >= 2
    /\ results[1].op = "try_init"
    /\ results[2].op = "try_init"

\* C2 as stated: of any two successive try_init calls, whatever their
\* configurations, exactly one returns a guard and the other AlreadyInstalled.
C2_Original ==
    BothTryInit =>
        \/ results[1].res = "Ok" /\ results[2].res = "AlreadyInstalled"
        \/ results[1].res = "AlreadyInstalled" /\ results[2].res = "Ok"

\* C2 amended: of two successive try_init calls in a process, each with a log
\* file that can be created (or none) and exporters that can be constructed,
\* the first returns a guard and the second AlreadyInstalled; a call whose
\* file cannot be created or whose exporter cannot be built returns FileSink
\* or ExporterBuild instead, also when a subscriber is already installed.
C2_TwoCleanBuilds ==
    BothTryInit =>
        /\ results[1].clean /\ results[2].clean
             => results[1].res = "Ok" /\ results[2].res = "AlreadyInstalled"
        /\ \A i \in 1..2 :
             ~results[i].clean <=> results[i].res \in {"FileSink", "ExporterBuild"}

\* C2 witness: two try_init calls, a guard and then AlreadyInstalled.
C2_Witness ==
    /\ BothTryInit
    /\ results[1].res = "Ok"
    /\ results[2].res = "AlreadyInstalled"
    /\ last.op = "try_init"

\* The release calls of a guard in the documented order: tracer, meter,
\* logger, each force_flush then shutdown, a provider not held left out.
CallsOf(g, k) ==
    IF Handle(g, k) = None THEN <<>>
    ELSE << [p |-> Handle(g, k)[1], kind |-> k, call |-> "force_flush"],
            [p |-> Handle(g, k)[1], kind |-> k, call |-> "shutdown_with_timeout"] >>

ExpectedRelease(g) == CallsOf(g, "tracer") \o CallsOf(g, "meter") \o CallsOf(g, "logger")

\* C3: a guard drop makes its release calls in exactly the order tracer
\* force_flush, tracer shutdown, meter force_flush, meter shutdown, logger
\* force_flush, logger shutdown, skipping both calls of a provider it does not
\* hold.
C3_ReleaseOrder == ReleaseRan => last.release = ExpectedRelease(Released)

\* C3 witness: a caller's drop of a guard holding a tracer and a logger and no
\* meter made four calls.
C3_Witness ==
    /\ last.op = "drop"
    /\ HeldKinds(last.guard) = {"tracer", "logger"}
    /\ Len(last.release) = 4

\* C4: whatever the release calls return, the drop makes both calls on every
\* held provider, surfaces nothing and does not panic.
C4_BestEffortDrop ==
    ReleaseRan =>
        /\ ~last.panicked
        /\ Len(last.release) = 2 * Cardinality(HeldKinds(Released))
        /\ \A id \in HeldIds(Released) :
             /\ providers[id].flushes = 1
             /\ providers[id].shutdowns = 1

\* C4 witness: all six release calls of a full guard failed at once and all
\* six were made.
C4_Witness ==
    /\ last.op = "drop"
    /\ HeldKinds(last.guard) = KindSet
    /\ last.ignored = 6
    /\ last.ms = 0
    /\ Len(last.release) = 6

\* C5: shutdown is invoked at most once on each provider a build constructed;
\* a provider is held by at most one guard, and once its guard has been
\* dropped (it is held by no live guard) it has been shut down exactly once.
C5_OneShutdownPerProvider ==
    \A id \in 1..Len(providers) :
        /\ providers[id].shutdowns <= 1
        /\ Cardinality({i \in 1..Len(guards) : id \in HeldIds(guards[i])}) <= 1
        /\ id \notin LiveIds => providers[id].shutdowns = 1

\* C5 witness: the caller dropped a guard holding providers after a failed
\* build had constructed, and released, providers of its own.
C5_Witness ==
    /\ last.op = "drop"
    /\ HeldIds(last.guard) # {}
    /\ Len(providers) > Cardinality(HeldIds(last.guard))
    /\ LiveIds = {}

\* C6 as stated: a guard drop spends at most 100 ms per held provider, plus a
\* small constant, also when the collector never answers.
C6_DropBounded ==
    ReleaseRan =>
        last.ms <= ShutdownTimeoutMs * Cardinality(HeldKinds(Released)) + SlackMs

\* C7 as stated: in both copies each setter writes its own field and leaves
\* every other field of the builder as it was.
C7_SettersFrame ==
    [][ /\ WithStdout =>
             \E v \in BOOLEAN :
                 builder' = Some([builder[1] EXCEPT !.stdout = Some(v)])
        /\ WithJson =>
             \E v \in JsonArgs :
                 builder' = Some([builder[1] EXCEPT !.json = v])
        /\ WithFile =>
             \E v \in FileArgs :
                 builder' = Some([builder[1] EXCEPT !.file = v])
        /\ WithOtel =>
             \E v \in OtelArgs :
                 builder' = Some([builder[1] EXCEPT !.otel = Some(v)])
      ]_vars

\* C8 as stated: in a fresh process, a builder of either copy on which only
\* with_stdout(false) was called (no file, no OTel) builds successfully into a
\* subscriber with the filter layer alone and a guard holding no provider.
C8_ZeroSinkBuild ==
    ( /\ last.op = "try_init"
      /\ last.first
      /\ \E c \in Crates : last.cfg = with_stdout(New(c), FALSE) )
    => /\ last.res = "Ok"
       /\ last.layers = <<>>
       /\ subscriber # None
       /\ subscriber[1].layers = <<>>
       /\ last.guard = Some(TracingGuards)

Has(seq, x) == \E i \in 1..Len(seq) : seq[i] = x
Count(seq, x) == Cardinality({i \in 1..Len(seq) : seq[i] = x})

ExporterStep(k) ==
    CASE k = "tracer" -> "SpanExporter::build"
      [] k = "meter" -> "MetricExporter::build"
      [] k = "logger" -> "LogExporter::build"

ProviderStep(k) ==
    CASE k = "tracer" -> "SdkTracerProvider::build"
      [] k = "meter" -> "SdkMeterProvider::build"
      [] k = "logger" -> "SdkLoggerProvider::build"

GlobalStep(k) ==
    CASE k = "tracer" -> "set_tracer_provider"
      [] k = "meter" -> "set_meter_provider"
      [] k = "logger" -> "set_logger_provider"

Present(cfg, k) == cfg.otel # None /\ Endpoint(cfg.otel[1], k) # None

\* C9: a try_init whose OTel parameters are present with all three endpoints
\* absent builds no exporter and no provider, installs no global provider,
\* appends no bridge layer and holds no provider in its guard; once past the
\* file sink it has installed the W3C propagator, and when it returns Ok the
\* guard it returns is empty.
C9_EmptyEndpoints ==
    ( /\ last.op = "try_init"
      /\ last.cfg.otel # None
      /\ \A k \in KindSet : ~Present(last.cfg, k) )
    => /\ last.exporters = <<>>
       /\ \A k \in KindSet :
            /\ ~Has(last.steps, ExporterStep(k))
            /\ ~Has(last.steps, ProviderStep(k))
            /\ ~Has(last.steps, GlobalStep(k))
       /\ \A i \in 1..Len(last.layers) : last.layers[i].layer \in {"file", "stdout"}
       /\ last.local_guard = TracingGuards
       /\ last.res # "ExporterBuild"
       /\ last.res # "FileSink" =>
            propagator = "w3c" /\ Has(last.steps, "set_text_map_propagator")
       /\ last.res = "Ok" =>
            last.guard = Some(TracingGuards) /\ subscriber[1].layers = last.layers
       /\ last.first =>
            global_tracer = None /\ global_meter = None /\ providers = <<>>

\* C9 witness: the first build of a process, with OTel parameters that name no
\* endpoint, returned Ok and the propagator is installed.
C9_Witness ==
    /\ last.op = "try_init"
    /\ last.first
    /\ last.cfg.otel = Some(OtelParams({}))
    /\ last.res = "Ok"
    /\ propagator = "w3c"

\* C10 as stated: on a successful build each endpoint that is present gets
\* exactly one exporter and exactly one provider installed as a process-wide
\* global, traces, metrics and logs alike; an absent endpoint gets neither.
C10_Original ==
    (last.op = "try_init" /\ last.res = "Ok") =>
        \A k \in KindSet :
            LET n == IF Present(last.cfg, k) THEN 1 ELSE 0
            IN /\ Count(last.exporters, k) = n
               /\ Count(last.steps, ProviderStep(k)) = n
               /\ Count(last.steps, GlobalStep(k)) = n

HasBridge(layers, name, id) ==
    \E i \in 1..Len(layers) : layers[i] = [layer |-> name, provider |-> id]

\* C10 amended: on a successful build each endpoint that is present gets
\* exactly one exporter and exactly one provider, held by the guard; the
\* tracer and the meter provider are installed as process-wide globals, while
\* the logger provider is attached to the log bridge layer of the subscriber
\* and is not installed as a global; an absent endpoint gets no exporter and
\* no provider.
C10_ExporterAndProviderPerEndpoint ==
    (last.op = "try_init" /\ last.res = "Ok") =>
        /\ \A k \in KindSet :
              LET n == IF Present(last.cfg, k) THEN 1 ELSE 0
                  h == Handle(last.guard[1], k)
              IN /\ Count(last.exporters, k) = n
                 /\ Count(last.steps, ExporterStep(k)) = n
                 /\ Count(last.steps, ProviderStep(k)) = n
                 /\ Count(last.steps, GlobalStep(k)) = (IF k = "logger" THEN 0 ELSE n)
                 /\ IsSome(h) <=> Present(last.cfg, k)
                 /\ IsSome(h) => providers[h[1]].kind = k
        /\ Present(last.cfg, "tracer") => global_tracer = last.guard[1].otel_tracer
        /\ Present(last.cfg, "meter") => global_meter = last.guard[1].otel_meter
        /\ Present(last.cfg, "logger") =>
              HasBridge(subscriber[1].layers, "otel_log", last.guard[1].otel_logger[1])

\* C10 witness: a successful build with all three endpoints present.
C10_Witness ==
    /\ last.op = "try_init"
    /\ last.res = "Ok"
    /\ last.cfg.otel = Some(OtelParams(KindSet))
    /\ Len(last.exporters) = 3
    /\ global_tracer # None
    /\ global_meter # None

\* A step that is a builder try_init call returning the given result.
TryInitReturns(res) ==
    /\ results' # results
    /\ last'.op = "try_init"
    /\ last'.res = res

\* C11: a build whose log file cannot be created returns FileSink having
\* changed nothing process-wide: subscriber, propagator, global providers,
\* provider table, guards, files and environment are as before the call, no
\* exporter was built and nothing was flushed or shut down; and when such a
\* failure is followed by a build whose file can be created and whose
\* exporters can be constructed, that build succeeds.
C11_FileSinkNoEffect ==
    /\ [][TryInitReturns("FileSink") =>
             /\ UNCHANGED << subscriber, propagator, global_tracer, global_meter,
                             providers, guards, fs, env >>
             /\ last'.steps = <<"File::create">>
             /\ last'.exporters = <<>>
             /\ last'.release = <<>>]_vars
    /\ [](Len(results) = 2 /\ results[1].res = "FileSink"
            /\ results[2].op = "try_init" /\ results[2].clean
          => results[2].res = "Ok")

\* A build fails on its file and the next build, valid and with OTel
\* configured, succeeds.
C11_Witness ==
    /\ Len(results) = 2
    /\ results[1].res = "FileSink"
    /\ results[2].res = "Ok"
    /\ results[2].op = "try_init"
    /\ last.cfg.otel # None
    /\ subscriber # None

\* C12: a build that returns ExporterBuild has installed no global tracer or
\* meter provider: its steps contain no set_tracer_provider and no
\* set_meter_provider, and when it is the first call of the process both
\* global slots are still empty after it.
C12_NoGlobalOnExporterFailure ==
    (last.op = "try_init" /\ last.res = "ExporterBuild") =>
        /\ ~Has(last.steps, GlobalStep("tracer"))
        /\ ~Has(last.steps, GlobalStep("meter"))
        /\ last.first => (global_tracer = None /\ global_meter = None)

\* The process-wide provider slot of a signal; the logger has none.
Global(k) ==
    CASE k = "tracer" -> global_tracer
      [] k = "meter" -> global_meter
      [] k = "logger" -> None

\* The most recent call was a build whose subscriber install failed.
InstallFailed == last.op = "try_init" /\ last.res = "AlreadyInstalled"

\* The providers the failed call built stay in the global slots.
LeftInPlace ==
    \A k \in {"tracer", "meter"} :
        Present(last.cfg, k) =>
            /\ Handle(last.local_guard, k) # None
            /\ Global(k) = Handle(last.local_guard, k)

\* C13 as stated: when the subscriber install fails, the providers the call
\* installed as globals stay in place and the call neither flushes nor shuts
\* them down.
C13_Original ==
    InstallFailed =>
        /\ LeftInPlace
        /\ last.release = <<>>
        /\ \A id \in HeldIds(last.local_guard) :
             providers[id].flushes = 0 /\ providers[id].shutdowns = 0

\* C13: when the subscriber install fails, the providers the call installed
\* as globals stay in the global slots, and the drop of the call's local
\* guard flushes and shuts down every provider the call built, once each, in
\* the drop's order, before the error is returned; none of them is held by a
\* guard afterwards.
C13_InstallFailureReleases ==
    InstallFailed =>
        /\ LeftInPlace
        /\ HeldKinds(last.local_guard) = {k \in KindSet : Present(last.cfg, k)}
        /\ last.release = ExpectedRelease(last.local_guard)
        /\ \A id \in HeldIds(last.local_guard) :
             /\ providers[id].flushes = 1
             /\ providers[id].shutdowns = 1
             /\ id \notin LiveIds

\* A second build with traces and metrics endpoints failed at the install:
\* both of its providers are the globals and both were released.
C13_Witness ==
    /\ InstallFailed
    /\ {"tracer", "meter"} \subseteq HeldKinds(last.local_guard)
    /\ global_tracer = last.local_guard.otel_tracer
    /\ global_meter = last.local_guard.otel_meter
    /\ Len(last.release) >= 4

\* The most recent call was a build made while no subscriber was installed,
\* with a file that can be created (or none) and exporters that can be
\* constructed.
CleanBuildNoSubscriber ==
    /\ last.op = "try_init"
    /\ results[Len(results)].clean
    /\ \A i \in 1..(Len(results) - 1) : results[i].res # "Ok"

\* C14: a build made while no subscriber is installed, with a creatable or
\* absent file and constructible exporters, returns a guard; the build makes
\* no export call (nothing is flushed or shut down, no time is spent on a
\* collector), and the guard holds a handle for exactly the signals whose
\* endpoint is present, each on a provider built by this call.
C14_CleanBuildSucceeds ==
    CleanBuildNoSubscriber =>
        /\ last.res = "Ok"
        /\ last.guard # None
        /\ HeldKinds(last.guard[1]) = {k \in KindSet : Present(last.cfg, k)}
        /\ last.release = <<>>
        /\ last.ms = 0
        /\ \A id \in HeldIds(last.guard[1]) :
             /\ providers[id].flushes = 0
             /\ providers[id].shutdowns = 0
        /\ \A k \in HeldKinds(last.guard[1]) :
             providers[Handle(last.guard[1], k)[1]].kind = k

\* The first build of the process, with the log file and the traces and logs
\* endpoints, and no metrics endpoint, succeeded.
C14_Witness ==
    /\ CleanBuildNoSubscriber
    /\ last.first
    /\ last.cfg.file = Some(PredefinedFile)
    /\ HeldKinds(last.guard[1]) = {"tracer", "logger"}
    /\ fs[PredefinedFile] = "empty"

\* C15: into_attributes of a descriptor d returns exactly
\* http.request.method = d.method, http.route = d.route and
\* http.response.status_code = d.status_code as a 64-bit integer, then
\* error.type = e exactly when d.error is Some(e), then every pair of d.extra
\* in insertion order; its length is 3, plus 1 with an error, plus the number
\* of extras; and d is as it was before the call.
C15_IntoAttributes ==
    last.op = "into_attributes" =>
        LET d == last.d
            a == last.attrs
            off == IF d.error = None THEN 3 ELSE 4
        IN /\ Len(a) = 3 + (IF d.error = None THEN 0 ELSE 1) + Len(d.extra)
           /\ a[1] = [key |-> "http.request.method",
                      value |-> [type |-> "String", v |-> d.method]]
           /\ a[2] = [key |-> "http.route",
                      value |-> [type |-> "String", v |-> d.route]]
           /\ a[3] = [key |-> "http.response.status_code",
                      value |-> [type |-> "I64", v |-> d.status_code]]
           /\ d.error # None =>
                a[4] = [key |-> "error.type",
                        value |-> [type |-> "String", v |-> d.error[1]]]
           /\ \A i \in 1..Len(d.extra) :
                a[off + i] = [key |-> d.extra[i][1],
                              value |-> [type |-> "String", v |-> d.extra[i][2]]]
           /\ http = Some(d)

\* A descriptor with the largest status code, an error and two different
\* extras, one of them under the key http.route, was converted to six
\* attributes.
C15_Witness ==
    /\ last.op = "into_attributes"
    /\ last.d.status_code = 65535
    /\ last.d.error # None
    /\ Len(last.d.extra) = 2
    /\ last.d.extra[1] # last.d.extra[2]
    /\ last.d.extra[2][1] = "http.route"
    /\ Len(last.attrs) = 6

\* The histograms created so far.
Histograms == {h \in instruments : h.kind = "u64_histogram"}

StrictlyIncreasing(seq) == \A i \in 1..(Len(seq) - 1) : seq[i] < seq[i + 1]

\* C16: every duration histogram MetricsHelper creates, the HTTP request one
\* and the DB operation one, carries the bucket boundaries 5, 10, 25, 50, 100,
\* 250, 500, 1000, 2500, 5000, 10000 in that order; they are strictly
\* increasing, so without duplicates, and the same for both histograms.
C16_HistogramBoundaries ==
    /\ \A h \in Histograms :
         /\ h.boundaries = << <<5, 10, 25, 50, 100, 250, 500, 1000, 2500, 5000, 10000>> >>
         /\ StrictlyIncreasing(h.boundaries[1])
         /\ h.unit = "ms"
    /\ \A h1, h2 \in Histograms : h1.boundaries = h2.boundaries

\* Both duration histograms, and both counters, have been created.
C16_Witness ==
    /\ Cardinality(Histograms) = 2
    /\ \E h \in Histograms : h.name = "http.server.request.duration"
    /\ \E h \in Histograms : h.name = "db.client.operation.duration"
    /\ Cardinality(instruments) = 4

\* The values the most recent build read from the environment are the ones
\* the environment holds: the filter, when it was taken from RUST_LOG, and
\* the export interval of the meter provider the build constructed.
BuildObservesEnv ==
    last.op = "try_init" =>
        /\ (last.res = "Ok" /\ subscriber[1].filter.from = "env") =>
               subscriber[1].filter.expr = env.RUST_LOG
        /\ last.local_guard.otel_meter # None =>
               providers[last.local_guard.otel_meter[1]].interval
                   = env.OTEL_METRIC_EXPORT_INTERVAL

\* C17: with_rust_log(v) leaves RUST_LOG = v and
\* with_otel_metric_export_interval(v) leaves OTEL_METRIC_EXPORT_INTERVAL = v
\* as soon as the setter returns; each changes nothing but its own variable:
\* the builder, the other variable and the rest of the process are as
\* before; the environment changes in no other step, so what a build reads
\* from the environment is what the last setter call before it wrote.
C17_EnvSetters ==
    /\ [](/\ last.op = "with_rust_log" => env.RUST_LOG = Some(last.value)
          /\ last.op = "with_otel_metric_export_interval" =>
                 env.OTEL_METRIC_EXPORT_INTERVAL = Some(last.value)
          /\ BuildObservesEnv)
    /\ [][/\ WithRustLog =>
               /\ builder' = builder
               /\ env'.OTEL_METRIC_EXPORT_INTERVAL = env.OTEL_METRIC_EXPORT_INTERVAL
          /\ WithOtelMetricExportInterval =>
               /\ builder' = builder
               /\ env'.RUST_LOG = env.RUST_LOG
          /\ env' # env => (WithRustLog \/ WithOtelMetricExportInterval)
         ]_vars

\* A build that took its filter from RUST_LOG and built a meter provider ran
\* after both variables had been written, and saw both values.
C17_Witness ==
    /\ last.op = "try_init"
    /\ last.res = "Ok"
    /\ subscriber[1].filter = [from |-> "env", expr |-> Some("debug")]
    /\ last.guard[1].otel_meter # None
    /\ providers[last.guard[1].otel_meter[1]].interval = Some("10000")
    /\ env = [RUST_LOG |-> Some("debug"), OTEL_METRIC_EXPORT_INTERVAL |-> Some("10000")]

\* Position of the first occurrence of a step in a step list, 0 when absent.
Pos(seq, x) ==
    IF ~Has(seq, x) THEN 0
    ELSE CHOOSE i \in 1..Len(seq) : seq[i] = x /\ \A j \in 1..(i - 1) : seq[j] # x

\* The steps of try_init that can fail, and those that append a layer.
Fallible == {"File::create", "SpanExporter::build", "MetricExporter::build",
             "LogExporter::build", "try_init"}
LayerSteps == {"push file layer", "push stdout layer", "push trace bridge layer",
               "push log bridge layer"}

\* C18: in the steps of one build, a signal's exporter is built before its
\* provider is built, and its provider is built before it is installed as a
\* global; every layer is appended before the subscriber install; and the
\* subscriber install, when the build gets to it, is the last step of all, so
\* no fallible step follows it.
C18_StepOrder ==
    last.op = "try_init" =>
        LET steps == last.steps IN
        /\ \A k \in KindSet :
             /\ Has(steps, ProviderStep(k)) =>
                  /\ Has(steps, ExporterStep(k))
                  /\ Pos(steps, ExporterStep(k)) < Pos(steps, ProviderStep(k))
             /\ Has(steps, GlobalStep(k)) =>
                  /\ Has(steps, ProviderStep(k))
                  /\ Pos(steps, ProviderStep(k)) < Pos(steps, GlobalStep(k))
        /\ \A i \in 1..Len(steps) :
             /\ steps[i] \in LayerSteps =>
                  (Has(steps, "try_init") => i < Pos(steps, "try_init"))
             /\ steps[i] = "try_init" => i = Len(steps)
             /\ (Has(steps, "try_init") /\ steps[i] \in Fallible) =>
                  i <= Pos(steps, "try_init")
        /\ last.res \in {"Ok", "AlreadyInstalled"} <=> Has(steps, "try_init")
        /\ Len(last.layers) = Cardinality({i \in 1..Len(steps) : steps[i] \in LayerSteps})

\* A build with a file, stdout and all three endpoints ran every step and
\* was installed.
C18_Witness ==
    /\ last.op = "try_init"
    /\ last.res = "Ok"
    /\ \A k \in KindSet : Has(last.steps, ExporterStep(k)) /\ Has(last.steps, ProviderStep(k))
    /\ \A x \in LayerSteps : Has(last.steps, x)
    /\ Len(last.steps) = 15

\* The layer kinds a configuration asks for, in the order of the claim.
ExpectedLayerKinds(cfg) ==
    (IF cfg.file # None THEN <<"file">> ELSE <<>>)
    \o (IF UnwrapOr(cfg.stdout, TRUE) THEN <<"stdout">> ELSE <<>>)
    \o (IF Present(cfg, "tracer") THEN <<"otel_trace">> ELSE <<>>)
    \o (IF Present(cfg, "logger") THEN <<"otel_log">> ELSE <<>>)

\* C19: the subscriber a successful build installs has exactly the layers
\* file (when a file path is set), stdout (when stdout is enabled or unset),
\* trace bridge (when the traces endpoint is present), log bridge (when the
\* logs endpoint is present), in that order, and none for metrics; the file
\* and stdout layers are JSON when the json flag is true or unset and text
\* otherwise; the file layer has colour codes off; each bridge is on the
\* provider this build constructed for its signal.
C19_LayerList ==
    (last.op = "try_init" /\ last.res = "Ok") =>
        LET layers == subscriber[1].layers
            g == last.guard[1]
        IN /\ [i \in 1..Len(layers) |-> layers[i].layer] = ExpectedLayerKinds(last.cfg)
           /\ \A i \in 1..Len(layers) :
                /\ layers[i].layer \in {"file", "stdout"} =>
                     layers[i].json = UnwrapOr(last.cfg.json, TRUE)
                /\ layers[i].layer = "file" => ~layers[i].ansi
                /\ layers[i].layer = "otel_trace" =>
                     Some(layers[i].provider) = g.otel_tracer
                /\ layers[i].layer = "otel_log" =>
                     Some(layers[i].provider) = g.otel_logger
           /\ g.otel_meter # None =>
                \A i \in 1..Len(layers) :
                    layers[i].layer \in {"otel_trace", "otel_log"} =>
                        layers[i].provider # g.otel_meter[1]

\* A text-format build with a file, stdout and all three endpoints installed
\* four layers, the meter provider among its providers but not its layers.
C19_Witness ==
    /\ last.op = "try_init"
    /\ last.res = "Ok"
    /\ last.cfg.json = Some(FALSE)
    /\ last.cfg.file # None
    /\ last.guard[1].otel_meter # None
    /\ Len(subscriber[1].layers) = 4
    /\ ~subscriber[1].layers[2].json

\* The builder was given a filter: only the rust copy has with_env_filter.
FilterConfigured(cfg) == cfg.crate = "rust" /\ cfg.env_filter # None

\* C20: the subscriber a successful build installs has one filter and no
\* filter among its layers: the filter given to with_env_filter(Some(f)) when
\* there is one, whatever RUST_LOG holds, and otherwise the filter parsed from
\* the value RUST_LOG has when the build is called.
C20_OneFilter ==
    (last.op = "try_init" /\ last.res = "Ok") =>
        /\ \A i \in 1..Len(subscriber[1].layers) :
             subscriber[1].layers[i].layer \in {"file", "stdout", "otel_trace", "otel_log"}
        /\ FilterConfigured(last.cfg) =>
             subscriber[1].filter = [from |-> "builder", expr |-> last.cfg.env_filter]
        /\ ~FilterConfigured(last.cfg) =>
             subscriber[1].filter = [from |-> "env", expr |-> env.RUST_LOG]

\* A build given the filter "warn" while RUST_LOG says "debug" installed
\* "warn".
C20_Witness ==
    /\ last.op = "try_init"
    /\ last.res = "Ok"
    /\ FilterConfigured(last.cfg)
    /\ env.RUST_LOG = Some("debug")
    /\ subscriber[1].filter.expr = Some("warn")

\* C21: while the guard a successful build returned is held, the global
\* tracer provider and the global meter provider are the ones that guard
\* holds, and no provider the guard holds has been flushed or shut down,
\* whatever builds were called since.
C21_GuardOwnsGlobals ==
    \A i \in 1..Len(guards) :
        /\ guards[i].otel_tracer # None => global_tracer = guards[i].otel_tracer
        /\ guards[i].otel_meter # None => global_meter = guards[i].otel_meter
        /\ \A id \in HeldIds(guards[i]) :
             providers[id].flushes = 0 /\ providers[id].shutdowns = 0

\* C22: a build that returns an error leaves every file as it was: it
\* neither creates the file at its file path nor truncates it.
C22_FailedBuildKeepsFile ==
    [][(results' # results /\ last'.op = "try_init" /\ last'.res # "Ok") =>
           fs' = fs]_vars

\* The filter expression and the export interval the most recent build
\* used, when it took a filter from RUST_LOG and installed it, and when it
\* built a meter provider.
UsedEnvFilter ==
    /\ last.op = "try_init"
    /\ last.res = "Ok"
    /\ ~FilterConfigured(last.cfg)

BuiltMeter == last.op = "try_init" /\ last.local_guard.otel_meter # None

UsedInterval == providers[last.local_guard.otel_meter[1]].interval

====
